---- MODULE Spec2Model ----
(***************************************************************************)
(* Model of rmscene's TaggedBlockWriter (tagged_block_writer.py).          *)
(*                                                                         *)
(* The writer holds a reference `data` to the active DataStream and the    *)
(* flag `_in_block`.  write_block and write_subblock are generator based   *)
(* context managers: the part before `yield` runs when the caller's `with` *)
(* statement is entered, the `finally` clause runs when the body is left   *)
(* (normally or by an exception), and the code after the try statement     *)
(* runs only when the body was left normally.  The caller's `with`         *)
(* statements form the stack of open regions (`stack`); an exception that  *)
(* travels through the caller's code is `exc`.                             *)
(*                                                                         *)
(* Byte buffers (the real sink and one BytesIO per open region) live in    *)
(* the heap `bufs`, addressed by identifiers; the sink is buffer 0.        *)
(* DataStream (tagged_block_common.py) is not part of the sources at hand; *)
(* its primitives are modelled after the format description.               *)
(***************************************************************************)
EXTENDS Integers, Sequences, FiniteSets, TLC

VARIABLES data, in_block, bufs, stack, exc, nextId, last, nsteps

vars == <<data, in_block, bufs, stack, exc, nextId, last, nsteps>>

(* ---------------- bounds of the exploration ---------------- *)

MaxSteps == 3

(* ---------------- inputs offered by the caller ---------------- *)

ValueIndexes == {1}

SubblockIndexes == {2, 9}

IdValues == {<<3, 5>>, <<3, 300>>, <<256, 5>>}

BoolValues == {TRUE}

ByteValues == {7, 256}

IntValues == {42, -1}

FloatValues == {"1.0"}

BlockParams == {<<7, 1, 2>>, <<7, 1, 256>>}

(* ---------------- DataStream primitives ---------------- *)

Sink == 0

TagID == 15

TagLength4 == 12

TagByte8 == 8

TagByte4 == 4

TagByte1 == 1

HEADER_V6 == <<114, 101, 77, 97, 114, 107, 97, 98, 108, 101, 32, 46, 108,
               105, 110, 101, 115, 32, 102, 105, 108, 101, 44, 32, 118, 101,
               114, 115, 105, 111, 110, 61, 54, 32, 32, 32, 32, 32, 32, 32,
               32, 32, 32>>

Good(b) == [ok |-> TRUE, bytes |-> b]

Bad == [ok |-> FALSE, bytes |-> <<>>]

(* Variant: a value that does not fit is reduced modulo 256.               *)
write_uint8_Wrap(v) == Good(<<v % 256>>)

write_uint8(v) == IF v >= 0 /\ v <= 255 THEN Good(<<v>>) ELSE Bad

LE32(v) == <<v % 256, (v \div 256) % 256, (v \div 65536) % 256, (v \div 16777216) % 256>>

write_uint32(v) == IF v >= 0 THEN Good(LE32(v)) ELSE Bad

RECURSIVE Varuint(_)
Varuint(v) == IF v < 128 THEN <<v>> ELSE <<(v % 128) + 128>> \o Varuint(v \div 128)

write_varuint(v) == IF v >= 0 THEN Good(Varuint(v)) ELSE Bad

write_bool(v) == Good(IF v THEN <<1>> ELSE <<0>>)

write_float32(v) == Good(CASE v = "1.0" -> <<0, 0, 128, 63>>)

write_float64(v) == Good(CASE v = "1.0" -> <<0, 0, 0, 0, 0, 0, 240, 63>>)

write_bytes(b) == Good(b)

write_tag(index, type) == write_varuint(index * 16 + type)

(* Statements executed one after the other on the same stream: the bytes   *)
(* of the statements before the first one that raises are written.         *)
RECURSIVE Chain(_)
Chain(ws) ==
    IF ws = <<>> THEN Good(<<>>)
    ELSE IF ~ws[1].ok THEN Bad
    ELSE LET rest == Chain(Tail(ws))
         IN  [ok |-> rest.ok, bytes |-> ws[1].bytes \o rest.bytes]

(* ---------------- state helpers ---------------- *)

Top == stack[Len(stack)]

Front(s) == SubSeq(s, 1, Len(s) - 1)

NoFrame == [kind |-> "none", buf |-> Sink, previous_data |-> Sink, index |-> 0,
            block_type |-> 0, min_version |-> 0, current_version |-> 0,
            off |-> 0, kids |-> <<>>, rejected |-> 0, parts |-> <<>>, unwound |-> 0]

Event(op, ok, target, off, frame, payload) ==
    [op |-> op, ok |-> ok, target |-> target, off |-> off, frame |-> frame, payload |-> payload,
     args |-> <<>>]

(* Bookkeeping for the properties: the innermost open region notes every   *)
(* call that wrote to its buffer, with the bytes the call added.            *)
AddPart(s, op, ok, bytes) ==
    IF s = <<>> THEN s
    ELSE [s EXCEPT ![Len(s)].parts = Append(@, [op |-> op, ok |-> ok, bytes |-> bytes])]

(* Variant: the bytes are put at the start of the buffer.                   *)
Emit_Prepend(target, bytes) == [bufs EXCEPT ![target] = bytes \o @]

Emit(target, bytes) == [bufs EXCEPT ![target] = @ \o bytes]

Alloc(id) == [i \in DOMAIN bufs \cup {id} |-> IF i = id THEN <<>> ELSE bufs[i]]

Free(b, id) == [i \in DOMAIN b \ {id} |-> b[i]]

Init ==
    /\ data = Sink
    /\ in_block = FALSE
    /\ bufs = [i \in {Sink} |-> <<>>]
    /\ stack = <<>>
    /\ exc = "none"
    /\ nextId = 1
    /\ last = Event("init", TRUE, Sink, 0, NoFrame, <<>>)
    /\ nsteps = 0

(* Variant: the bytes go to the real sink, not to the active stream.       *)
Write_ToSink(op, args, ws) ==
    LET r == Chain(ws)
    IN  /\ exc = "none"
        /\ nsteps < MaxSteps
        /\ nsteps' = nsteps + 1
        /\ bufs' = Emit(Sink, r.bytes)
        /\ exc' = IF r.ok THEN "none" ELSE "EncodingRangeError"
        /\ stack' = AddPart(stack, op, r.ok, r.bytes)
        /\ last' = [Event(op, r.ok, data, Len(bufs[data]), NoFrame, r.bytes) EXCEPT !.args = args]
        /\ UNCHANGED <<data, in_block, nextId>>

(* A method that writes `ws` to the active stream: write_header and the    *)
(* tagged-value writers.                                                    *)
Write(op, args, ws) ==
    LET r == Chain(ws)
    IN  /\ exc = "none"
        /\ nsteps < MaxSteps
        /\ nsteps' = nsteps + 1
        /\ bufs' = Emit(data, r.bytes)
        /\ exc' = IF r.ok THEN "none" ELSE "EncodingRangeError"
        /\ stack' = AddPart(stack, op, r.ok, r.bytes)
        /\ last' = [Event(op, r.ok, data, Len(bufs[data]), NoFrame, r.bytes) EXCEPT !.args = args]
        /\ UNCHANGED <<data, in_block, nextId>>

write_header == Write("write_header", <<>>, <<Good(HEADER_V6)>>)

(* Variant: the sequence part is written before the author part.          *)
write_id_FieldsSwapped(index, value) ==
    Write("write_id", <<index, value>>, <<write_tag(index, TagID), write_varuint(value[2]), write_uint8(value[1])>>)

write_id(index, value) ==
    Write("write_id", <<index, value>>, <<write_tag(index, TagID), write_uint8(value[1]), write_varuint(value[2])>>)

write_bool_tagged(index, value) ==
    Write("write_bool", <<index, value>>, <<write_tag(index, TagByte1), write_bool(value)>>)

write_byte(index, value) ==
    Write("write_byte", <<index, value>>, <<write_tag(index, TagByte1), write_uint8(value)>>)

write_int(index, value) ==
    Write("write_int", <<index, value>>, <<write_tag(index, TagByte4), write_uint32(value)>>)

write_float(index, value) ==
    Write("write_float", <<index, value>>, <<write_tag(index, TagByte4), write_float32(value)>>)

write_double(index, value) ==
    Write("write_double", <<index, value>>, <<write_tag(index, TagByte8), write_float64(value)>>)

(* ---------------- regions ---------------- *)

NewFrame(kind, index, params) ==
    [kind |-> kind, buf |-> nextId, previous_data |-> data, index |-> index,
     block_type |-> params[1], min_version |-> params[2], current_version |-> params[3],
     off |-> Len(bufs[data]), kids |-> <<>>, rejected |-> 0, parts |-> <<>>,
     unwound |-> 0]

(* Variant: the fresh buffer is never made the active stream.              *)
Enter_NoSwap(f) ==
    /\ bufs' = Alloc(f.buf)
    /\ data' = data
    /\ stack' = Append(stack, f)
    /\ nextId' = nextId + 1

(* Lines 96-102 and 123-128: remember the active stream, make a fresh     *)
(* buffer the active stream, hand control to the body of the `with`.       *)
Enter(f) ==
    /\ bufs' = Alloc(f.buf)
    /\ data' = f.buf
    /\ stack' = Append(stack, f)
    /\ nextId' = nextId + 1

(* Bookkeeping for the properties: every open region notes how deep       *)
(* inside it (1 = directly in its body) a write_block call was refused.    *)
MarkRejected(s) == [i \in 1..Len(s) |-> [s[i] EXCEPT !.rejected = Len(s) - i + 1]]

(* Variant: the test is missing.                                            *)
AlreadyInBlock_Never == FALSE

(* Line 93: the test that guards the opening of a block.                   *)
AlreadyInBlock == in_block

(* write_block entered: line 93 raises when a block is already open,       *)
(* before anything is assigned.                                             *)
write_block_enter(block_type, min_version, current_version) ==
    /\ exc = "none"
    /\ IF AlreadyInBlock
       THEN /\ nsteps < MaxSteps
            /\ nsteps' = nsteps + 1
            /\ exc' = "UnexpectedBlockError"
            /\ stack' = MarkRejected(stack)
            /\ last' = Event("write_block", FALSE, data, Len(bufs[data]), NoFrame, <<>>)
            /\ UNCHANGED <<data, in_block, bufs, nextId>>
       ELSE /\ nsteps < MaxSteps
            /\ nsteps' = nsteps + 1
            /\ Enter(NewFrame("block", 0, <<block_type, min_version, current_version>>))
            /\ in_block' = TRUE
            /\ exc' = "none"
            /\ last' = Event("write_block", TRUE, data, Len(bufs[data]), NoFrame, <<>>)

write_subblock_enter(index) ==
    /\ exc = "none"
    /\ nsteps < MaxSteps
    /\ nsteps' = nsteps + 1
    /\ Enter(NewFrame("subblock", index, <<0, 0, 0>>))
    /\ exc' = "none"
    /\ last' = Event("write_subblock", TRUE, data, Len(bufs[data]), NoFrame, <<>>)
    /\ UNCHANGED in_block

(* Variant: the length counts the 8 header bytes as well.                   *)
BlockClose_LenWithHeader(f, payload) ==
    Chain(<<write_uint32(Len(payload) + 8), write_uint8(0), write_uint8(f.min_version),
            write_uint8(f.current_version), write_uint8(f.block_type), write_bytes(payload)>>)

(* Variant: the two version bytes change places.                            *)
BlockClose_VersionsSwapped(f, payload) ==
    Chain(<<write_uint32(Len(payload)), write_uint8(0), write_uint8(f.current_version),
            write_uint8(f.min_version), write_uint8(f.block_type), write_bytes(payload)>>)

(* Variant: the length follows the payload.                                 *)
SubblockClose_LenLast(f, payload) ==
    Chain(<<write_tag(f.index, TagLength4), write_bytes(payload), write_uint32(Len(payload))>>)

(* Variant: the active stream is left as it is.                             *)
Restored_Keep(f) == data

(* Variant: the real sink is made active, whatever encloses the region.     *)
Restored_Sink(f) == Sink

(* Variant: the finally clause writes the header of an empty region.       *)
UnwindBytes_EmptyHeader(f, payload) ==
    IF f.kind = "block" THEN <<0, 0, 0, 0, 0, f.min_version % 256, f.current_version % 256,
                               f.block_type % 256>>
    ELSE Varuint(f.index * 16 + TagLength4) \o <<0, 0, 0, 0>>

(* Variant: the finally clause flushes the buffered bytes.                  *)
UnwindBytes_Flush(f, payload) == payload

(* The statements after the try statement of write_block (lines 109-114)   *)
(* and of write_subblock (lines 132-134).                                   *)
BlockClose(f, payload) ==
    Chain(<<write_uint32(Len(payload)), write_uint8(0), write_uint8(f.min_version),
            write_uint8(f.current_version), write_uint8(f.block_type), write_bytes(payload)>>)

(* Variant: the declared length counts the four bytes of the length field. *)
SubblockClose_LenCountsItself(f, payload) ==
    Chain(<<write_tag(f.index, TagLength4), write_uint32(Len(payload) + 4), write_bytes(payload)>>)

SubblockClose(f, payload) ==
    Chain(<<write_tag(f.index, TagLength4), write_uint32(Len(payload)), write_bytes(payload)>>)

(* The stream made active by the finally clause (lines 104 and 130).       *)
Restored(f) == f.previous_data

(* What the end of a block's region does to the flag (lines 106-107 on a   *)
(* normal exit; nothing on an exit by exception).                           *)
(* Variant: the end of any region, block or subblock, clears the flag.     *)
FlagAfterClose_AnyRegion(f) == FALSE

FlagAfterClose(f) == IF f.kind = "block" THEN FALSE ELSE in_block

FlagAfterUnwind(f) == in_block

(* What the finally clause writes when an exception leaves the region      *)
(* (lines 103-104 and 129-130): nothing, it only restores the stream.       *)
UnwindBytes(f, payload) == <<>>

(* Bookkeeping: the innermost open region has seen one more of its nested  *)
(* regions left by an exception.                                            *)
AddUnwound(s) ==
    IF s = <<>> THEN s ELSE [s EXCEPT ![Len(s)].unwound = @ + 1]

AddKid(s, off, bytes) ==
    IF s = <<>> THEN s
    ELSE [s EXCEPT ![Len(s)].kids = Append(@, [off |-> off, bytes |-> bytes])]

(* The body of the innermost `with` ends normally: finally clause, then    *)
(* the header and the buffered bytes go to the restored stream.            *)
region_exit ==
    /\ exc = "none"
    /\ stack # <<>>
    /\ LET f == Top
           payload == bufs[f.buf]
           target == Restored(f)
           r == IF f.kind = "block" THEN BlockClose(f, payload) ELSE SubblockClose(f, payload)
           op == IF f.kind = "block" THEN "close_block" ELSE "close_subblock"
       IN  /\ data' = target
           /\ IF f.kind = "block" /\ ~in_block
              THEN /\ exc' = "AssertionError"
                   /\ in_block' = in_block
                   /\ bufs' = Free(bufs, f.buf)
                   /\ stack' = Front(stack)
                   /\ last' = Event(op, FALSE, target, Len(bufs[target]), f, payload)
              ELSE /\ in_block' = FlagAfterClose(f)
                   /\ bufs' = Free(Emit(target, r.bytes), f.buf)
                   /\ exc' = IF r.ok THEN "none" ELSE "EncodingRangeError"
                   /\ stack' = IF r.ok
                               THEN AddPart(AddKid(Front(stack), Len(bufs[target]), r.bytes),
                                            op, TRUE, r.bytes)
                               ELSE AddPart(Front(stack), op, FALSE, r.bytes)
                   /\ last' = Event(op, r.ok, target, Len(bufs[target]), f, payload)
    /\ UNCHANGED <<nextId, nsteps>>

(* An exception leaves the body of the innermost `with`: only the finally  *)
(* clause runs, and the exception travels on.                               *)
region_unwind ==
    /\ exc # "none"
    /\ stack # <<>>
    /\ LET f == Top
       IN  /\ data' = Restored(f)
           /\ in_block' = FlagAfterUnwind(f)
           /\ bufs' = Free(Emit(Restored(f), UnwindBytes(f, bufs[f.buf])), f.buf)
           /\ stack' = AddUnwound(Front(stack))
           /\ last' = Event("unwind", FALSE, Restored(f), Len(bufs[Restored(f)]), f, bufs[f.buf])
    /\ UNCHANGED <<exc, nextId, nsteps>>

(* ---------------- the caller ---------------- *)

(* Code of the caller inside a region raises.                               *)
caller_raise ==
    /\ exc = "none"
    /\ stack # <<>>
    /\ nsteps < MaxSteps
    /\ nsteps' = nsteps + 1
    /\ exc' = "CallerError"
    /\ last' = Event("raise", FALSE, data, Len(bufs[data]), NoFrame, <<>>)
    /\ UNCHANGED <<data, in_block, bufs, stack, nextId>>

(* The caller catches the exception where it currently is.                  *)
caller_catch ==
    /\ exc # "none"
    /\ exc' = "none"
    /\ last' = Event("catch", TRUE, data, Len(bufs[data]), NoFrame, <<>>)
    /\ UNCHANGED <<data, in_block, bufs, stack, nextId, nsteps>>

Next ==
    \/ write_header
    \/ \E i \in ValueIndexes, v \in IdValues : write_id(i, v)
    \/ \E i \in ValueIndexes, v \in BoolValues : write_bool_tagged(i, v)
    \/ \E i \in ValueIndexes, v \in ByteValues : write_byte(i, v)
    \/ \E i \in ValueIndexes, v \in IntValues : write_int(i, v)
    \/ \E i \in ValueIndexes, v \in FloatValues : write_float(i, v)
    \/ \E i \in ValueIndexes, v \in FloatValues : write_double(i, v)
    \/ \E p \in BlockParams : write_block_enter(p[1], p[2], p[3])
    \/ \E i \in SubblockIndexes : write_subblock_enter(i)
    \/ region_exit
    \/ region_unwind
    \/ caller_raise
    \/ caller_catch

Spec == Init /\ [][Next]_vars

(* A `with` statement whose body has ended runs the exit of its context    *)
(* manager, and an exception that nobody catches leaves the region: weak   *)
(* fairness of region_exit and of region_unwind.  WF_vars(region_exit) is  *)
(* written out, with the guard of region_exit as its enabling condition    *)
(* (a step of region_exit always shortens the stack).                       *)
ExitEnabled == exc = "none" /\ stack # <<>>

FairSpec ==
    /\ Spec
    /\ WF_vars(region_unwind)
    /\ ([]<>(~ExitEnabled) \/ []<><<region_exit>>_vars)

(* ---------------- vocabulary of the properties ---------------- *)

ValueOps == {"write_id", "write_bool", "write_byte", "write_int", "write_float", "write_double"}

WriteOps == ValueOps \cup {"write_header"}

CloseOps == {"close_block", "close_subblock"}

IsPrefix(a, b) == Len(a) <= Len(b) /\ SubSeq(b, 1, Len(a)) = a

(* The bytes the last operation added to the stream it wrote to.           *)
Appended == SubSeq(bufs[last.target], last.off + 1, Len(bufs[last.target]))

(* What the enclosing stream of the region just ended holds from the       *)
(* offset it had when that region was opened.                               *)
SinceOpen == SubSeq(bufs[last.frame.previous_data], last.frame.off + 1,
                    Len(bufs[last.frame.previous_data]))

DecodeU32(b) == b[1] + 256 * b[2] + 65536 * b[3] + 16777216 * b[4]

BlockOpen == \E i \in 1..Len(stack) : stack[i].kind = "block"

Core(f) == [kind |-> f.kind, buf |-> f.buf, previous_data |-> f.previous_data,
            index |-> f.index, block_type |-> f.block_type,
            min_version |-> f.min_version, current_version |-> f.current_version]

Cores(s) == [i \in 1..Len(s) |-> Core(s[i])]

Ids(s) == [i \in 1..Len(s) |-> s[i].buf]

(* The buffer of the innermost open region, the real sink if there is none. *)
Innermost(s) == IF s = <<>> THEN Sink ELSE s[Len(s)].buf

(* The buffer that encloses the innermost open region.                      *)
Enclosing(s) == IF Len(s) <= 1 THEN Sink ELSE s[Len(s) - 1].buf

Regions == 1..MaxSteps

IsOpen(r) == \E i \in 1..Len(stack) : stack[i].buf = r

(* ---------------- C1 ---------------- *)

(* C1: when a block is closed normally, the 4-byte little-endian length    *)
(* at the start of what the close emitted equals the number of bytes that  *)
(* follow the 8-byte block header, which is the size the block's buffer    *)
(* had at the close.                                                        *)
C1_BlockLength ==
    (last.op = "close_block" /\ last.ok) =>
        /\ Len(Appended) >= 8
        /\ DecodeU32(SubSeq(Appended, 1, 4)) = Len(Appended) - 8
        /\ Len(Appended) - 8 = Len(last.payload)

C1_Witness ==
    /\ last.op = "close_block" /\ last.ok
    /\ last.frame.kids # <<>>
    /\ Len(last.payload) > Len(last.frame.kids[1].bytes)

(* ---------------- C2 ---------------- *)

(* C2: a write_block call made while a block is open raises                *)
(* UnexpectedBlockError and leaves the active stream, the flag, all        *)
(* buffers and the open regions as they were; a block that saw such a      *)
(* call and is then closed normally is emitted with its length, its header *)
(* bytes and its payload.                                                    *)
C2_NestedBlockRejected ==
    /\ [][(BlockOpen /\ last'.op = "write_block") =>
            /\ ~last'.ok
            /\ exc' = "UnexpectedBlockError"
            /\ data' = data
            /\ in_block' = in_block
            /\ bufs' = bufs
            /\ Cores(stack') = Cores(stack)]_vars
    /\ []((last.op = "close_block" /\ last.ok /\ last.frame.rejected > 0) =>
            /\ DecodeU32(SubSeq(SinceOpen, 1, 4)) = Len(last.payload)
            /\ SubSeq(SinceOpen, 5, 8) = <<0, last.frame.min_version,
                                           last.frame.current_version, last.frame.block_type>>
            /\ SubSeq(SinceOpen, 9, Len(SinceOpen)) = last.payload)

C2_Witness ==
    /\ last.op = "close_block" /\ last.ok
    /\ last.frame.rejected = 2
    /\ last.frame.kids # <<>>

(* ---------------- C3 ---------------- *)

(* C3: after a normal close of a block the active stream is the enclosing  *)
(* one, and what that stream holds from the offset it had when the block   *)
(* was opened is exactly: length (4 bytes), 0, min_version,                 *)
(* current_version, block_type, payload.                                    *)
C3_BlockCloseOrder ==
    (last.op = "close_block" /\ last.ok) =>
        /\ data = last.frame.previous_data
        /\ SinceOpen = <<Len(last.payload) % 256, (Len(last.payload) \div 256) % 256,
                         (Len(last.payload) \div 65536) % 256,
                         (Len(last.payload) \div 16777216) % 256,
                         0, last.frame.min_version, last.frame.current_version,
                         last.frame.block_type>> \o last.payload

C3_Witness ==
    /\ last.op = "close_block" /\ last.ok
    /\ last.payload # <<>>
    /\ last.frame.off > 0

(* ---------------- C4 ---------------- *)

SubblockHeaderLen(index) == Len(Varuint(index * 16 + TagLength4)) + 4

(* C4: when a subblock B is closed normally, its tag, length and payload   *)
(* are one run in the enclosing stream that starts at the offset that      *)
(* stream had when B was opened; and every subblock that was closed inside *)
(* B sits in B's emitted payload as the same run of bytes, at the offset   *)
(* at which it was opened.                                                   *)
C4_SubblockContiguous ==
    (last.op = "close_subblock" /\ last.ok) =>
        /\ SinceOpen = Varuint(last.frame.index * 16 + TagLength4)
                         \o <<Len(last.payload) % 256, (Len(last.payload) \div 256) % 256,
                              (Len(last.payload) \div 65536) % 256,
                              (Len(last.payload) \div 16777216) % 256>>
                         \o last.payload
        /\ \A k \in 1..Len(last.frame.kids) :
             LET kid == last.frame.kids[k]
                 at == SubblockHeaderLen(last.frame.index) + kid.off
             IN  SubSeq(SinceOpen, at + 1, at + Len(kid.bytes)) = kid.bytes

C4_Witness ==
    /\ last.op = "close_subblock" /\ last.ok
    /\ last.frame.kids # <<>>
    /\ last.frame.kids[1].off = 0
    /\ Len(last.payload) > Len(last.frame.kids[1].bytes)

(* ---------------- C5 ---------------- *)

(* C5: whenever a region ends, normally or by an exception, the active     *)
(* stream right after is the one that was active when the region was       *)
(* opened; and when no region is open the active stream is the real sink.  *)
C5_TargetRestored ==
    /\ [][Len(stack') < Len(stack) => data' = Top.previous_data]_vars
    /\ [](stack = <<>> => data = Sink)

C5_Witness ==
    /\ last.op = "unwind"
    /\ stack = <<>>
    /\ last.frame.off > 0
    /\ data = Sink

(* ---------------- C6 ---------------- *)

(* C6: the flag _in_block is set exactly while a block region is open.     *)
C6_InBlockIffBlockOpen == in_block <=> BlockOpen

(* ---------------- C7 ---------------- *)

(* C7: a write changes only the buffer of the innermost open region (the   *)
(* real sink if none is open), by appending; the end of a region discards  *)
(* that region's buffer, and a close appends to the buffer that directly   *)
(* encloses the region; no step changes any other buffer.                   *)
C7_WritesStayInRegion ==
    [][\A b \in DOMAIN bufs :
         (b \notin DOMAIN bufs' \/ bufs'[b] # bufs[b]) =>
            \/ /\ last'.op \in WriteOps
               /\ b = Innermost(stack)
               /\ b \in DOMAIN bufs' /\ IsPrefix(bufs[b], bufs'[b])
            \/ /\ last'.op \in CloseOps \cup {"unwind"}
               /\ b = Innermost(stack)
               /\ b # Sink
            \/ /\ last'.op \in CloseOps
               /\ stack # <<>>
               /\ b = Enclosing(stack)
               /\ b \in DOMAIN bufs' /\ IsPrefix(bufs[b], bufs'[b])]_vars

C7_Witness ==
    /\ last.op \in ValueOps /\ last.ok
    /\ Len(stack) = 2
    /\ last.target = Top.buf
    /\ bufs[Top.buf] # <<>>
    /\ bufs[stack[1].buf] = <<>>

(* ---------------- C8 ---------------- *)

(* C8: the active stream is always the buffer of the innermost open region *)
(* (the real sink if none is open), and the open regions change only by    *)
(* opening a new innermost one or by ending the innermost one.              *)
C8_LIFO ==
    /\ [](data = Innermost(stack))
    /\ [][Ids(stack') # Ids(stack) =>
            \/ (Len(stack') = Len(stack) + 1 /\ Front(Ids(stack')) = Ids(stack))
            \/ (stack # <<>> /\ Ids(stack') = Front(Ids(stack)))]_vars

C8_Witness ==
    /\ last.op \in CloseOps \cup {"unwind"}
    /\ Len(stack) >= 1
    /\ data = Top.buf
    /\ last.frame.previous_data = Top.buf

(* ---------------- C9 ---------------- *)

HeaderLen(f) == IF f.kind = "block" THEN 8 ELSE SubblockHeaderLen(f.index)

(* C9: whenever regions are open, a moment follows at which none is open   *)
(* (every open region ends); a region never opens a second time; when it   *)
(* ends the enclosing stream becomes active; a normal close adds the       *)
(* header and one copy of the payload to the enclosing stream, a close     *)
(* that raises adds less than a header and no payload, and an end by an    *)
(* exception adds nothing.                                                   *)
C9_ClosedExactlyOnce ==
    /\ (stack # <<>>) ~> (stack = <<>>)
    /\ [][\A r \in Regions :
            /\ (~IsOpen(r) /\ IsOpen(r)') => (r = nextId /\ nextId' = nextId + 1)
            /\ (IsOpen(r) /\ ~IsOpen(r)') =>
                 LET f == Top
                     enc == f.previous_data
                     added == SubSeq(bufs'[enc], Len(bufs[enc]) + 1, Len(bufs'[enc]))
                 IN  /\ f.buf = r
                     /\ data' = enc
                     /\ IsPrefix(bufs[enc], bufs'[enc])
                     /\ (last'.op \in CloseOps /\ last'.ok) =>
                          /\ Len(added) = HeaderLen(f) + Len(bufs[r])
                          /\ SubSeq(added, HeaderLen(f) + 1, Len(added)) = bufs[r]
                     /\ (last'.op \in CloseOps /\ ~last'.ok) => Len(added) < HeaderLen(f)
                     /\ (last'.op = "unwind") => added = <<>>]_vars

C9_Witness ==
    /\ last.op = "unwind"
    /\ last.payload # <<>>
    /\ stack # <<>>
    /\ nextId > 2

(* ---------------- C10 ---------------- *)

(* C10 as claimed: the preamble is written only to the real sink, only     *)
(* when no region is open and only when nothing has been written before.   *)
C10_HeaderOnlyFirst ==
    (last.op = "write_header") =>
        /\ last.target = Sink
        /\ last.off = 0
        /\ stack = <<>>

(* C10 as amended: every write_header call succeeds and appends exactly    *)
(* the preamble to the stream that is active at the call, whatever has     *)
(* been written before and whether or not a region is open; called first   *)
(* on a new writer it leaves the sink holding the preamble only.            *)
C10_HeaderAppendsToActive ==
    (last.op = "write_header") =>
        /\ last.ok
        /\ exc = "none"
        /\ last.target = data
        /\ Appended = HEADER_V6
        /\ (last.target = Sink /\ last.off = 0) => bufs[Sink] = HEADER_V6

C10_Witness ==
    /\ last.op = "write_header"
    /\ stack # <<>>
    /\ last.off > 0
    /\ Appended = HEADER_V6

(* ---------------- C11 ---------------- *)

TagBytes(index, type) == Varuint(index * 16 + type)

(* C11: a tagged-value call that returns has appended to the active stream *)
(* exactly the tag of its index and of the wire type of the operation,     *)
(* followed by the one value: write_id ID tag, author byte, sequence as    *)
(* varuint; write_bool and write_byte Byte1 tag and one byte; write_int    *)
(* Byte4 tag and 4 bytes little-endian; write_float Byte4 tag and the 4    *)
(* bytes of the binary32; write_double Byte8 tag and the 8 bytes of the    *)
(* binary64.                                                                 *)
C11_TaggedValueLayout ==
    (last.op \in ValueOps /\ last.ok) =>
        LET i == last.args[1]
            v == last.args[2]
        IN  /\ last.target = data
            /\ CASE last.op = "write_id" ->
                      Appended = TagBytes(i, TagID) \o <<v[1]>> \o Varuint(v[2])
                 [] last.op = "write_bool" ->
                      Appended = TagBytes(i, TagByte1) \o <<IF v THEN 1 ELSE 0>>
                 [] last.op = "write_byte" ->
                      Appended = TagBytes(i, TagByte1) \o <<v>>
                 [] last.op = "write_int" ->
                      /\ Len(Appended) = Len(TagBytes(i, TagByte4)) + 4
                      /\ IsPrefix(TagBytes(i, TagByte4), Appended)
                      /\ DecodeU32(SubSeq(Appended, Len(Appended) - 3, Len(Appended))) = v
                 [] last.op = "write_float" ->
                      Appended = TagBytes(i, TagByte4) \o <<0, 0, 128, 63>>
                 [] last.op = "write_double" ->
                      Appended = TagBytes(i, TagByte8) \o <<0, 0, 0, 0, 0, 0, 240, 63>>

C11_Witness ==
    /\ last.op = "write_id" /\ last.ok
    /\ last.args[2] = <<3, 300>>
    /\ stack # <<>>
    /\ Len(Appended) = 4

(* ---------------- C12 ---------------- *)

RECURSIVE Flatten(_)
Flatten(ps) == IF ps = <<>> THEN <<>> ELSE ps[1].bytes \o Flatten(Tail(ps))

RECURSIVE SumLen(_)
SumLen(ps) == IF ps = <<>> THEN 0 ELSE Len(ps[1].bytes) + SumLen(Tail(ps))

FitsU8(v) == v >= 0 /\ v <= 255

(* The header bytes of a block up to the first field that does not fit.    *)
HeaderUpToBad(f, n) ==
    <<n % 256, (n \div 256) % 256, (n \div 65536) % 256, (n \div 16777216) % 256, 0>>
      \o (IF FitsU8(f.min_version) THEN <<f.min_version>> ELSE <<>>)
      \o (IF FitsU8(f.min_version) /\ FitsU8(f.current_version)
          THEN <<f.current_version>> ELSE <<>>)

C14_SubblockLength ==
    (last.op = "close_subblock" /\ last.ok) =>
        LET taglen == Len(TagBytes(last.frame.index, TagLength4))
            declared == DecodeU32(SubSeq(SinceOpen, taglen + 1, taglen + 4))
        IN  /\ Len(SinceOpen) >= taglen + 4
            /\ declared = Len(SinceOpen) - taglen - 4
            /\ declared = SumLen(last.frame.parts)
            /\ \A k \in 1..Len(last.frame.kids) :
                   \E j \in 1..Len(last.frame.parts) :
                       /\ last.frame.parts[j].op \in CloseOps
                       /\ last.frame.parts[j].bytes = last.frame.kids[k].bytes

C14_Witness ==
    /\ last.op = "close_subblock" /\ last.ok
    /\ last.frame.previous_data = Sink
    /\ ~in_block
    /\ Len(last.frame.parts) = 1
    /\ last.frame.parts[1].op = "close_subblock"
    /\ Len(last.frame.parts[1].bytes) > SubblockHeaderLen(9)
    /\ Len(last.frame.kids) = 1

(* ---------------- C15 ---------------- *)

(* C15: when an exception leaves a region, the stream that encloses it     *)
(* holds exactly what it held when the region was opened (no header, no    *)
(* buffered byte) and is the active stream again; no step changes the      *)
(* stream that encloses an open region, nor does a step taken while an     *)
(* exception is in flight; and a region in which a nested region was left  *)
(* by an exception that was then caught is the active stream, holds        *)
(* exactly the pieces written to it directly, and when it is closed        *)
(* normally its declared length is the size of those pieces.               *)
C15_ErrorDiscardsRegion ==
    /\ [](last.op = "unwind" =>
          /\ Len(bufs[last.frame.previous_data]) = last.frame.off
          /\ data = last.frame.previous_data
          /\ last.frame.buf \notin DOMAIN bufs)
    /\ [][\A i \in 1..Len(stack) :
             (Len(stack') >= i \/ exc # "none") =>
                 bufs'[stack[i].previous_data] = bufs[stack[i].previous_data]]_vars
    /\ []((exc = "none" /\ stack # <<>> /\ Top.unwound > 0) =>
          /\ data = Top.buf
          /\ bufs[Top.buf] = Flatten(Top.parts))
    /\ []((last.op \in CloseOps /\ last.ok /\ last.frame.unwound > 0) =>
          /\ last.payload = Flatten(last.frame.parts)
          /\ LET at == IF last.frame.kind = "block" THEN 0
                       ELSE Len(TagBytes(last.frame.index, TagLength4))
             IN  DecodeU32(SubSeq(SinceOpen, at + 1, at + 4)) = Len(last.payload)
          /\ Len(SinceOpen) = HeaderLen(last.frame) + Len(last.payload))

C15_Witness ==
    /\ last.op = "close_block" /\ last.ok
    /\ last.frame.unwound = 1
    /\ nextId = 3
    /\ nsteps = 3
    /\ bufs[Sink] = <<0, 0, 0, 0, 0, 1, 2, 7>>

(* ---------------- C16 ---------------- *)

(* C16: a block that is closed normally was opened with the real sink as   *)
(* the active stream, and its header and payload are appended to the real  *)
(* sink, never to the buffer of an open subblock.                           *)
C16_BlockGoesToSink ==
    (last.op = "close_block" /\ last.ok) =>
        /\ last.frame.previous_data = Sink
        /\ last.target = Sink

(* ---------------- C17 ---------------- *)

(* C17: a tagged-value write that raises while encoding its value leaves   *)
(* no byte of the call in the active stream.                                *)
C17_AllOrNothing ==
    (last.op \in ValueOps /\ ~last.ok) => Appended = <<>>

(* ---------------- C18 ---------------- *)

(* C18: while a block's region is open the flag _in_block is true, so the  *)
(* assertion at the normal end of a block never fails: no AssertionError   *)
(* is ever in flight, and a block close that did not complete failed on    *)
(* the encoding of its header.                                              *)
C18_AssertNeverFails ==
    /\ BlockOpen => in_block
    /\ exc # "AssertionError"
    /\ (last.op = "close_block" /\ ~last.ok /\ exc # "none") => exc = "EncodingRangeError"

C18_Witness ==
    /\ last.op = "close_block" /\ last.ok
    /\ last.frame.rejected = 1
    /\ last.frame.kids # <<>>
    /\ last.frame.unwound = 0
    /\ ~in_block

====
